---- MODULE Spec2Model ----
(***************************************************************************)
(* Model of the DWM1001 interface examples.                                *)
(*                                                                         *)
(*  - gui_tools.py: the DeviceHandler session of the BLE manager.  Each    *)
(*    button click schedules a coroutine (App._schedule); coroutines of    *)
(*    one handler interleave at every await of a transport call or sleep.  *)
(*    Specifications: Spec, FairSpec, SpecStream.                          *)
(*  - listener.py / listener_mqtt.py: the serial listener, a reader thread *)
(*    and the command loop sharing the global handle ser.                  *)
(*    Specifications: FairListener, SpecMqtt.                              *)
(***************************************************************************)
EXTENDS Integers, Sequences, FiniteSets, TLC

VARIABLES
    \* ---- DeviceHandler (gui_tools.py) ----
    client,      \* self.client: None or the BleakClient the handler refers to
    connected,   \* self.connected
    notifying,   \* self.notifying
    ui,          \* the row of labels the handler writes (self.ui)
    link,        \* per BleakClient object: state of its transport connection
    sub,         \* per BleakClient object: the notification callback is registered
    task,        \* the coroutines scheduled by button clicks
    rx,          \* history: the last two notification frames delivered
    \* ---- serial listener (listener.py, listener_mqtt.py) ----
    prog,        \* the script that is running
    port,        \* the device node exists (find_port returns it)
    ser,         \* the global ser: None or a serial.Serial object
    hs,          \* per Serial object: "new" (not created, or freed), "open" or
                 \* "dead" (its device is gone, I/O on it raises)
    at,          \* per thread: where it is
    loc,         \* per thread: the Serial object passed to the function it runs
    lec,         \* per Serial object: a setup_listener run ended with lec on it
    replays,     \* history: setup_listener runs begun since the last loss
    losses,      \* history: losses of the device so far
    quit,        \* the user has typed exit and main has not read it yet
    cmd,         \* the command line main read from the prompt
    ip,          \* per thread: statements done of the writing call it is in
    tx,          \* per thread: what that call has written and slept so far
    reads,       \* lines the reader thread has read from the device
    \* ---- position decoders ----
    sent,        \* history: the position the peer encoded
    buf,         \* the buffer handed to a decoder
    ret          \* the decoder that ran last and what it returned

bleVars == <<client, connected, notifying, ui, link, sub, task, rx>>

serVars == <<prog, port, ser, hs, at, loc, lec, replays, losses, quit, cmd, ip, tx, reads>>

codecVars == <<sent, buf, ret>>

vars == <<bleVars, serVars, codecVars>>

(***************************************************************************)
(* Bounds                                                                  *)
(***************************************************************************)
\* button clicks (scheduled coroutines) in one run; the BleakClient created
\* by the connect coroutine in slot t is identified by t
MaxOps == 2

\* times the device is unplugged in one run
MaxLosses == 2

\* lines the peer sends on the serial port in one run
MaxReads == 2

Tasks == 1..MaxOps
\* serial.Serial objects alive at once: at most one referenced by ser and one
\* by each thread; the identity of a freed object is used again
Handles == 1..3
Threads == {"main", "reader"}
None == 0

(***************************************************************************)
(* Record codec (gui_tools.py utilities)                                   *)
(***************************************************************************)
OP_MODE_UUID == "3f0afd88"
NETWORK_ID_UUID == "80f9d8bc"
DISCONNECT_UUID == "ed83b848"
ANCHOR_POS_UUID == "f0f26c9b"
LOCATION_UUID == "003bbdf2"

Bit(b, n) == (b \div (2 ^ n)) % 2

\* the four bytes read without the sign bit
LE32_no_sign(s, i) ==
    s[i] + 256 * s[i + 1] + 65536 * s[i + 2] + 16777216 * (s[i + 3] % 128)

\* struct.unpack("<i", ...): little-endian signed 32 bit
LE32(s, i) ==
    LET hi == IF s[i + 3] >= 128 THEN s[i + 3] - 256 ELSE s[i + 3]
    IN  s[i] + 256 * s[i + 1] + 65536 * s[i + 2] + 16777216 * hi

\* struct.unpack("<H", data[:2])
LE16(s) == s[1] + 256 * s[2]

\* struct.pack("<H", v) and struct.pack("<i", v)
PackLE16(v) == <<v % 256, (v \div 256) % 256>>

\* (\div rounds down and % is never negative: two's complement bytes)
PackLE32(v) ==
    <<v % 256, (v \div 256) % 256, (v \div 65536) % 256,
      (v \div 16777216) % 256>>

\* build_mode_config without the role bit of the first byte
build_mode_config_no_role(role) ==
    <<2 * 32 + 8 + 4 + 2 + 1, IF role = "anchor" THEN 128 ELSE 64 + 32>>

build_mode_config(role) ==
    LET bit7 == IF role = "anchor" THEN 128 ELSE 0
        uwb_mode == 2 * 32
        fw == 0
        accel == 8
        led == 4
        fw_update == 2
        ble == 1
        byte1 == bit7 + uwb_mode + fw + accel + led + fw_update + ble
        byte2 == IF role = "anchor" THEN 128 ELSE 64 + 32
    IN  <<byte1, byte2>>

\* decode_op_mode refusing the UWB mode value 3
decode_op_mode_strict(data) ==
    IF Len(data) < 2 \/ (data[1] \div 32) % 4 = 3
    THEN [k |-> "raw", data |-> data]
    ELSE [k |-> "mode",
          type |-> IF Bit(data[1], 7) = 1 THEN "Anchor" ELSE "Tag",
          uwb |-> (data[1] \div 32) % 4,
          fw |-> Bit(data[1], 4) + 1,
          accel |-> Bit(data[1], 3) = 1,
          led |-> Bit(data[1], 2) = 1,
          fw_update |-> Bit(data[1], 1) = 1,
          ble |-> Bit(data[1], 0) = 1,
          initiator |-> Bit(data[2], 7) = 1,
          low_power |-> Bit(data[2], 6) = 1,
          loc_engine |-> Bit(data[2], 5) = 1]

decode_op_mode(data) ==
    IF Len(data) < 2 THEN [k |-> "raw", data |-> data]
    ELSE LET b0 == data[1]
             b1 == data[2]
         IN  [k |-> "mode",
              type |-> IF Bit(b0, 7) = 1 THEN "Anchor" ELSE "Tag",
              uwb |-> (b0 \div 32) % 4,
              fw |-> Bit(b0, 4) + 1,
              accel |-> Bit(b0, 3) = 1,
              led |-> Bit(b0, 2) = 1,
              fw_update |-> Bit(b0, 1) = 1,
              ble |-> Bit(b0, 0) = 1,
              initiator |-> Bit(b1, 7) = 1,
              low_power |-> Bit(b1, 6) = 1,
              loc_engine |-> Bit(b1, 5) = 1]

decode_location_data(data) ==
    IF Len(data) < 14 THEN [k |-> "raw", data |-> data]
    ELSE [k |-> "pos", type |-> data[1],
          x |-> LE32(data, 2), y |-> LE32(data, 6), z |-> LE32(data, 10),
          q |-> data[14]]

\* the payload with a leading type byte, as in the location characteristic
pack_BiiiB(p) ==
    <<0>> \o PackLE32(p.x) \o PackLE32(p.y) \o PackLE32(p.z) \o <<p.q>>

\* struct.pack("<iiiB", x, y, z, q)
pack_iiiB(p) == PackLE32(p.x) \o PackLE32(p.y) \o PackLE32(p.z) \o <<p.q>>

parse_anchor_static_write(d) ==
    IF Len(d) # 13 THEN [k |-> "ValueError"]
    ELSE [k |-> "ok", x |-> LE32(d, 1), y |-> LE32(d, 5), z |-> LE32(d, 9),
          q |-> d[13]]

\* read_write_pansid.py: struct.unpack("<H", data)[0] on the whole buffer
read_write_pansid(d) ==
    IF Len(d) # 2 THEN [k |-> "struct.error"] ELSE [k |-> "pan", v |-> LE16(d)]

\* get_anchor_pos.py: main prints the position read, or gives up on its length
get_anchor_pos(d) ==
    IF Len(d) # 14 THEN [k |-> "none"]
    ELSE [k |-> "pos", type |-> d[1],
          x |-> LE32(d, 2), y |-> LE32(d, 6), z |-> LE32(d, 10), q |-> d[14]]

Abs(n) == IF n < 0 THEN -n ELSE n

RECURSIVE Gcd(_, _)
Gcd(a, b) == IF b = 0 THEN a ELSE Gcd(b, a % b)

\* the number n / d (d > 0), as the fraction in lowest terms
Rat(n, d) == LET g == Gcd(Abs(n), d) IN <<n \div g, d \div g>>

\* x / 1000.0
Metres(x) == Rat(x, 1000)

\* "uwb dwm1001c bluetooth test.py": parse_position
parse_position(d) ==
    IF Len(d) < 13 THEN [k |-> "none"]
    ELSE IF d[1] \notin {0, 2} THEN [k |-> "none"]
    ELSE [k |-> "pos",
          x_m |-> Metres(LE32(d, 2)), y_m |-> Metres(LE32(d, 6)),
          z_m |-> Metres(LE32(d, 10)),
          quality |-> IF Len(d) > 13 THEN d[14] ELSE 0]

(***************************************************************************)
(* What the peer sends                                                     *)
(***************************************************************************)
\* type 0, x=1000, y=2000, z=1500, quality 100
FrameValid == <<0, 232, 3, 0, 0, 208, 7, 0, 0, 220, 5, 0, 0, 100>>
\* 5 bytes: wrong length
FrameShort == <<0, 232, 3, 0, 0>>
\* 14 bytes, type byte 7: unrecognized kind, x=-1
FrameBadType == <<7, 255, 255, 255, 255, 208, 7, 0, 0, 220, 5, 0, 0, 50>>

Frames == {FrameValid, FrameShort, FrameBadType}

\* what the peer answers to a read of the PAN, mode and location channels
PanReads == {<<52, 18>>}
ModeReads == {build_mode_config("tag")}
PosReads == {FrameValid}

\* what the user enters in the Write PAN ID and Write Anchor Position dialogs
PanEntries == {4660, 65536, -1}
PosEntries == [x : {1000}, y : {2000}, z : {1500}, q : {100, 101, -1}]

\* a dialog that accepts whatever integer is entered
valid_any(v) == TRUE

\* _ask_write_pan: if 0 <= pan_id <= 0xFFFF
valid_pan(v) == 0 <= v /\ v <= 65535

\* _ask_write_pos: if not 0 <= q <= 100: showerror
valid_q(q) == 0 <= q /\ q <= 100

\* the entries for which the dialogs schedule the write
PanIds == {v \in PanEntries : valid_pan(v)}
AnchorPositions == {p \in PosEntries : valid_q(p.q)}

Dash == [k |-> "-"]

InitUi == [status |-> "DISCONNECTED", log |-> "", livestream |-> Dash,
           notify |-> "OFF", pan |-> Dash, opmode |-> Dash, staticpos |-> Dash]

IdleTask == [op |-> "-", pc |-> "idle", cl |-> None, role |-> "-",
             tr |-> <<>>, out |-> "-"]

(***************************************************************************)
(* DeviceHandler (gui_tools.py).  A coroutine runs without interruption    *)
(* from one await of a transport call (or sleep) to the next; each such    *)
(* segment is an operator from the state found on resumption to the state  *)
(* left at the next suspension.  The record s holds the handler's fields,  *)
(* the transport objects, and tk, the running coroutine: its operation,    *)
(* position, the client its pending call was issued on (cl) and the        *)
(* transport calls it has issued so far (tr).                              *)
(***************************************************************************)
St(t) == [client |-> client, connected |-> connected, notifying |-> notifying,
          ui |-> ui, link |-> link, sub |-> sub, tk |-> task[t]]

Commit(t, s) ==
    /\ client' = s.client
    /\ connected' = s.connected
    /\ notifying' = s.notifying
    /\ ui' = s.ui
    /\ link' = s.link
    /\ sub' = s.sub
    /\ task' = [task EXCEPT ![t] = s.tk]

\* "not self.client or not self.client.is_connected"
NotConn(s) == s.client = None \/ s.link[s.client] # "up"

Log(s, m) == [s EXCEPT !.ui.log = m]

\* await self.client.<call>(chan, data): the call is issued on the client the
\* handler refers to now, and the coroutine is suspended at pc
Issue(s, call, chan, data, pc) ==
    [s EXCEPT !.tk.pc = pc, !.tk.cl = s.client,
              !.tk.tr = Append(@, [call |-> call, chan |-> chan,
                                   data |-> data, res |-> "-"])]

\* the result of the write the coroutine was suspended in
SetRes(s, r) == [s EXCEPT !.tk.tr[Len(s.tk.tr)].res = r]

Done(s, out) == [s EXCEPT !.tk.pc = "done", !.tk.out = out]

\* what an awaited read/write/notify call on client c can do on resumption
Outcomes(c) == IF link[c] = "up" THEN {"ok", "raise"} ELSE {"raise"}

\* ---- set_op_mode: the label updates after force_disconnect_via_char ----
set_op_mode_tail(s) ==
    Done([s EXCEPT !.ui.log = "Role set. Reconnect required.",
                   !.ui.pan = Dash,
                   !.ui.opmode = [k |-> "changing", role |-> s.tk.role],
                   !.ui.staticpos = Dash,
                   !.ui.livestream = Dash], "role_set")

\* ---- disconnect ----
disconnect_return(s, out) ==
    IF s.tk.op = "set_op_mode" THEN set_op_mode_tail(s) ELSE Done(s, out)

\* lines 332-338: the unconditional reset after the cleanup attempt
disconnect_finish(s) ==
    disconnect_return(
        [s EXCEPT !.client = None, !.connected = FALSE, !.notifying = FALSE,
                  !.ui.status = "DISCONNECTED", !.ui.notify = "OFF",
                  !.ui.livestream = Dash, !.ui.log = "Disconnected"],
        "disconnected")

\* line 329: await self.client.disconnect() inside try/except Exception: pass
\* (self.client is read again here: None raises AttributeError, swallowed)
client_disconnect(s) ==
    IF s.client = None THEN disconnect_finish(s)
    ELSE Issue(s, "disconnect", "-", <<>>, "tdisc")

\* the transport's side of client.disconnect(): an open link is closed; a
\* handshake still in flight is either aborted or left to complete
client_disconnect_resume(s, r, abort) ==
    LET c == s.tk.cl
        l == IF s.link[c] = "up" \/ (s.link[c] = "connecting" /\ abort)
             THEN "down" ELSE s.link[c]
    IN  disconnect_finish(
            [s EXCEPT !.link[c] = l,
                                 !.sub[c] = IF l = "down" THEN FALSE ELSE @])

\* ---- stop_location_notify ----
stop_location_notify_return(s) ==
    IF s.tk.op = "stop_notify" THEN Done(s, "stopped") ELSE client_disconnect(s)

stop_location_notify(s) ==
    IF NotConn(s) \/ ~s.notifying
    THEN stop_location_notify_return(
             [s EXCEPT !.notifying = FALSE, !.ui.notify = "OFF",
                       !.ui.livestream = Dash])
    ELSE Issue(s, "stop_notify", LOCATION_UUID, <<>>, "stop_notify")

\* stop_location_notify without its try: a failed stop_notify reaches
\* disconnect's except, which skips the close
stop_notify_resume_propagates(s, r) ==
    IF r = "ok"
    THEN stop_location_notify_return(
             [s EXCEPT !.sub[s.tk.cl] = FALSE, !.notifying = FALSE,
                       !.ui.notify = "OFF", !.ui.livestream = Dash,
                       !.ui.log = "Location Notify OFF"])
    ELSE IF s.tk.op = "stop_notify" THEN Done(s, "error")
         ELSE disconnect_finish(s)

stop_notify_resume(s, r) ==
    LET c == s.tk.cl
    IN  IF r = "ok"
        THEN stop_location_notify_return(
                 [s EXCEPT !.sub[c] = FALSE, !.notifying = FALSE,
                                      !.ui.notify = "OFF",
                                      !.ui.livestream = Dash,
                                      !.ui.log = "Location Notify OFF"])
        ELSE stop_location_notify_return(s)

\* disconnect calling self.client.disconnect() with neither the client guard
\* nor the try: with no client held the AttributeError ends the coroutine
disconnect_unguarded(s) ==
    IF s.client # None THEN stop_location_notify(s)
    ELSE Done(Log(s, "Disconnect err"), "error")

disconnect(s) ==
    IF s.client # None THEN stop_location_notify(s) ELSE disconnect_finish(s)

\* ---- force_disconnect_via_char ----
force_disconnect_via_char(s) ==
    IF NotConn(s)
    THEN LET s1 == Log(s, "Not connected")
         IN  IF s.tk.op = "set_op_mode" THEN set_op_mode_tail(s1)
             ELSE Done(s1, "not_connected")
    ELSE Issue(s, "write", DISCONNECT_UUID, <<1>>, "w_disc")

\* force_disconnect_via_char with the teardown only after a successful write
force_disconnect_resume_no_finally(s, r) ==
    IF r = "ok" THEN disconnect(Log(SetRes(s, r), "Wrote Force Disconnect"))
    ELSE Done(Log(SetRes(s, r), "Disconnect write err"), "error")

force_disconnect_resume(s, r) ==
    disconnect(Log(SetRes(s, r),
                   IF r = "ok" THEN "Wrote Force Disconnect"
                   ELSE "Disconnect write err"))

\* ---- set_op_mode ----
set_op_mode(s) ==
    IF NotConn(s) THEN Done(Log(s, "Not connected"), "not_connected")
    ELSE Issue(Log(s, "Setting role"), "write", OP_MODE_UUID,
               build_mode_config(s.tk.role), "w_mode")

set_op_mode_resume(s, r) ==
    IF r = "ok" THEN force_disconnect_via_char(SetRes(s, r))
    ELSE Done(Log(SetRes(s, r), "Set mode err"), "error")

\* ---- start_location_notify ----
start_location_notify(s) ==
    IF NotConn(s) THEN Done(s, IF s.tk.op = "connect" THEN "connected" ELSE "not_connected")
    ELSE Issue(s, "start_notify", LOCATION_UUID, <<>>, "start_notify")

start_notify_resume(s, r) ==
    LET c == s.tk.cl
        out == IF s.tk.op = "connect" THEN "connected" ELSE "started"
    IN  IF r = "ok"
        THEN Done([s EXCEPT !.sub[c] = TRUE, !.notifying = TRUE,
                            !.ui.notify = "ON",
                            !.ui.log = "Location Notify ON"], out)
        ELSE Done([s EXCEPT !.notifying = FALSE, !.ui.notify = "OFF",
                            !.ui.log = "Notify start err"], out)

\* _cb with a decode failure ending the subscription
cb_drops_subscription(h, data) ==
    IF decode_location_data(data).k = "raw" \/ data[1] \notin {0, 2}
    THEN [h EXCEPT !.notifying = FALSE]
    ELSE [h EXCEPT !.ui.livestream = decode_location_data(data)]

\* the notification callback _cb(sender, data)
cb(h, data) == [h EXCEPT !.ui.livestream = decode_location_data(data)]

\* ---- _read_static_pos ----
read_static_pos_return(s) ==
    IF s.tk.op = "connect" THEN start_location_notify(s)
    ELSE Done(s, IF s.tk.op = "write_anchor_position" THEN "written" ELSE "read")

read_static_pos(s) ==
    IF NotConn(s) THEN read_static_pos_return(s)
    ELSE Issue(s, "read", LOCATION_UUID, <<>>, "pos")

read_static_pos_resume(s, r, data) ==
    read_static_pos_return(
        IF r = "ok"
        THEN IF Len(data) = 14
             THEN [s EXCEPT !.ui.staticpos = decode_location_data(data),
                            !.ui.log = "Read RPos (14-byte) success."]
             ELSE Log(s, "Read RPos: len (Needs Anchor Role/Refresh)")
        ELSE Log(s, "Read RPos Err"))

\* ---- _force_config_refresh ----
force_config_refresh_return(s) ==
    IF s.tk.op = "connect" THEN read_static_pos(s) ELSE Done(s, "refreshed")

force_config_refresh(s) ==
    IF NotConn(s) THEN force_config_refresh_return(s)
    ELSE Issue(Log(s, "Attempting config refresh..."),
               "read", OP_MODE_UUID, <<>>, "ref_read")

\* _force_config_refresh writing the anchor configuration instead of the
\* bytes it read
refresh_read_resume_rewrites(s, r, data) ==
    IF r = "ok"
    THEN IF Len(data) >= 2
         THEN IF s.client = None
              THEN force_config_refresh_return(Log(s, "Config refresh failed"))
              ELSE Issue(s, "write", OP_MODE_UUID, build_mode_config("anchor"),
                         "ref_write")
         ELSE force_config_refresh_return(s)
    ELSE force_config_refresh_return(Log(s, "Config refresh failed"))

refresh_read_resume(s, r, data) ==
    IF r = "ok"
    THEN IF Len(data) >= 2
         THEN IF s.client = None
              THEN force_config_refresh_return(Log(s, "Config refresh failed"))
              ELSE Issue(s, "write", OP_MODE_UUID, data, "ref_write")
         ELSE force_config_refresh_return(s)
    ELSE force_config_refresh_return(Log(s, "Config refresh failed"))

refresh_write_resume(s, r) ==
    IF r = "ok" THEN [SetRes(s, r) EXCEPT !.tk.pc = "ref_sleep"]
    ELSE force_config_refresh_return(Log(SetRes(s, r), "Config refresh failed"))

refresh_sleep_resume(s) ==
    force_config_refresh_return(Log(s, "Config refresh complete."))

\* ---- _read_mode ----
read_mode_return(s) ==
    IF s.tk.op = "connect" THEN force_config_refresh(s) ELSE Done(s, "read")

read_mode(s) ==
    IF NotConn(s) THEN read_mode_return(s)
    ELSE Issue(s, "read", OP_MODE_UUID, <<>>, "mode")

read_mode_resume(s, r, data) ==
    read_mode_return(
        IF r = "ok"
        THEN [s EXCEPT !.ui.opmode = decode_op_mode(data),
                       !.ui.log = "Read OpMode success."]
        ELSE Log(s, "Read OpMode Err"))

\* ---- _read_pan ----
read_pan_return(s) ==
    IF s.tk.op = "connect" THEN read_mode(s)
    ELSE Done(s, IF s.tk.op = "write_pan" THEN "written" ELSE "read")

read_pan(s) ==
    IF NotConn(s) THEN read_pan_return(s)
    ELSE Issue(s, "read", NETWORK_ID_UUID, <<>>, "pan")

\* _read_pan letting the exception of a failed read end the caller
read_pan_resume_aborts(s, r, data) ==
    IF r = "ok"
    THEN read_pan_return(
             IF Len(data) >= 2
             THEN [s EXCEPT !.ui.pan = [k |-> "pan", v |-> LE16(data)],
                            !.ui.log = "Read PAN"]
             ELSE s)
    ELSE Done(Log(s, "Read PAN Err"), "error")

read_pan_resume(s, r, data) ==
    read_pan_return(
        IF r = "ok"
        THEN IF Len(data) >= 2
             THEN [s EXCEPT !.ui.pan = [k |-> "pan", v |-> LE16(data)],
                            !.ui.log = "Read PAN"]
             ELSE s
        ELSE Log(s, "Read PAN Err"))

post_connect_reads(s) == read_pan(s)

\* ---- write_pan ----
\* write_pan without its "Not connected" guard
write_pan_unguarded(s, pan_id) ==
    Issue(s, "write", NETWORK_ID_UUID, PackLE16(pan_id), "w_pan")

\* struct.pack("<H", pan_id) raises struct.error outside 0..65535, inside
\* the try
write_pan(s, pan_id) ==
    IF NotConn(s) THEN Done(Log(s, "Not connected"), "not_connected")
    ELSE IF pan_id < 0 \/ pan_id > 65535
         THEN Done(Log(s, "Write PAN Err"), "error")
         ELSE Issue(s, "write", NETWORK_ID_UUID, PackLE16(pan_id), "w_pan")

\* write_pan without the read-back
write_pan_resume_no_readback(s, r) ==
    IF r = "ok" THEN Done(Log(SetRes(s, r), "PAN ID written."), "written")
    ELSE Done(Log(SetRes(s, r), "Write PAN Err"), "error")

\* write_pan tearing the session down when the write raises
write_pan_resume_disconnects(s, r) ==
    IF r = "ok" THEN read_pan(Log(SetRes(s, r), "PAN ID written."))
    ELSE disconnect(Log(SetRes(s, r), "Write PAN Err"))

\* lines 210-220: the log line and the read-back, or the error line
write_pan_resume(s, r) ==
    IF r = "ok" THEN read_pan(Log(SetRes(s, r), "PAN ID written."))
    ELSE Done(Log(SetRes(s, r), "Write PAN Err"), "error")

\* ---- write_anchor_position ----
\* struct.pack("<iiiB", ...) raises struct.error for q outside 0..255,
\* inside the try
write_anchor_position(s, p) ==
    IF NotConn(s) THEN Done(Log(s, "Not connected"), "not_connected")
    ELSE IF p.q < 0 \/ p.q > 255
         THEN Done(Log(s, "Write ApoS err"), "error")
         ELSE Issue(s, "write", ANCHOR_POS_UUID, pack_iiiB(p), "w_apos")

\* lines 281-287: the log line and the read of the location channel, or the
\* error line
write_anchor_position_resume(s, r) ==
    IF r = "ok" THEN read_static_pos(Log(SetRes(s, r), "Wrote ApoS"))
    ELSE Done(Log(SetRes(s, r), "Write ApoS err"), "error")

\* ---- connect ----
\* connect without the "already connected" guard
connect_unguarded(s, id) ==
    Issue([s EXCEPT !.client = id, !.link[id] = "connecting"],
          "connect", "-", <<>>, "connect")

\* lines 130-135: the guard, the new BleakClient (identified by the slot of
\* the coroutine that creates it) and the handshake it starts
connect(s, id) ==
    IF s.connected THEN Done(s, "already_connected")
    ELSE Issue([s EXCEPT !.client = id, !.link[id] = "connecting"],
               "connect", "-", <<>>, "connect")

\* connect going on to the configuration whatever is_connected says
connect_resume_ignores_state(s, r) ==
    LET c == s.tk.cl
        s1 == [s EXCEPT !.link[c] = IF r = "up" THEN "up" ELSE "down"]
    IN  IF r = "raise" \/ s1.client = None
        THEN Done([s1 EXCEPT !.ui.status = "ERR", !.ui.log = "Conn Err"], "error")
        ELSE [s1 EXCEPT !.connected = TRUE, !.ui.status = "CONNECTED",
                        !.ui.log = "Connected", !.tk.pc = "sleep"]

\* lines 136-149: r is how the handshake ended: "up", "raise", or "notup"
\* (connect() returned and is_connected is false)
connect_resume(s, r) ==
    LET c == s.tk.cl
        s1 == [s EXCEPT !.link[c] = IF r = "up" THEN "up" ELSE "down"]
        err == [s1 EXCEPT !.ui.status = "ERR", !.ui.log = "Conn Err"]
    IN  IF r = "raise" \/ s1.client = None
        THEN Done(err, "error")
        ELSE IF s1.link[s1.client] = "up"
             THEN [s1 EXCEPT !.connected = TRUE, !.ui.status = "CONNECTED",
                             !.ui.log = "Connected", !.tk.pc = "sleep"]
             ELSE Done([s1 EXCEPT !.connected = FALSE,
                                  !.ui.status = "FAILED"], "failed")

\* line 142: after the stabilize delay
connect_sleep_resume(s) == post_connect_reads(s)

(***************************************************************************)
(* Actions of the BLE manager                                              *)
(***************************************************************************)
NextSlot == Cardinality({t \in Tasks : task[t].pc # "idle"}) + 1

\* App._schedule: asyncio.ensure_future(coro).  The event loop starts ready
\* coroutines in the order they were scheduled.
NoneScheduled == \A u \in Tasks : task[u].pc # "scheduled"

\* The Connect, Disc, Set Role and ForceDisc buttons read nothing of the
\* handler when clicked, so the click and the coroutine's first segment are
\* one step: the state the coroutine starts in is all that it can observe.
Begin(o, role) ==
    [St(NextSlot) EXCEPT !.tk = [IdleTask EXCEPT !.op = o, !.role = role]]

CanStart == NextSlot \in Tasks /\ NoneScheduled

Start_connect ==
    /\ CanStart
    /\ Commit(NextSlot, connect(Begin("connect", "-"), NextSlot))
    /\ UNCHANGED <<rx, serVars, codecVars>>

Start_disconnect ==
    /\ CanStart
    /\ Commit(NextSlot, disconnect(Begin("disconnect", "-")))
    /\ UNCHANGED <<rx, serVars, codecVars>>

Start_set_op_mode ==
    /\ CanStart
    /\ \E role \in {"tag", "anchor"} :
           Commit(NextSlot, set_op_mode(Begin("set_op_mode", role)))
    /\ UNCHANGED <<rx, serVars, codecVars>>

Start_force_disconnect ==
    /\ CanStart
    /\ Commit(NextSlot, force_disconnect_via_char(Begin("force_disconnect", "-")))
    /\ UNCHANGED <<rx, serVars, codecVars>>

\* App._toggle_notify reads handler.connected and handler.notifying when the
\* Loc button is clicked; the coroutine it schedules starts later
Click_Loc ==
    /\ NextSlot \in Tasks
    /\ connected
    /\ task' = [task EXCEPT ![NextSlot] =
                   [IdleTask EXCEPT !.pc = "scheduled",
                       !.op = IF notifying THEN "stop_notify" ELSE "start_notify"]]
    /\ UNCHANGED <<client, connected, notifying, ui, link, sub, rx, serVars, codecVars>>

Start_start_notify(t) ==
    /\ task[t].pc = "scheduled"
    /\ task[t].op = "start_notify"
    /\ Commit(t, start_location_notify(St(t)))
    /\ UNCHANGED <<rx, serVars, codecVars>>

Start_stop_notify(t) ==
    /\ task[t].pc = "scheduled"
    /\ task[t].op = "stop_notify"
    /\ Commit(t, stop_location_notify(St(t)))
    /\ UNCHANGED <<rx, serVars, codecVars>>

Resume_connect(t) ==
    /\ task[t].pc = "connect"
    /\ \E r \in IF link[task[t].cl] = "connecting"
                THEN {"up", "raise", "notup"} ELSE {"raise"} :
           Commit(t, connect_resume(St(t), r))
    /\ UNCHANGED <<rx, serVars, codecVars>>

Resume_connect_sleep(t) ==
    /\ task[t].pc = "sleep"
    /\ Commit(t, connect_sleep_resume(St(t)))
    /\ UNCHANGED <<rx, serVars, codecVars>>

Resume_read_pan(t) ==
    /\ task[t].pc = "pan"
    /\ \E r \in Outcomes(task[t].cl), data \in PanReads :
           Commit(t, read_pan_resume(St(t), r, data))
    /\ UNCHANGED <<rx, serVars, codecVars>>

Resume_read_mode(t) ==
    /\ task[t].pc = "mode"
    /\ \E r \in Outcomes(task[t].cl), data \in ModeReads :
           Commit(t, read_mode_resume(St(t), r, data))
    /\ UNCHANGED <<rx, serVars, codecVars>>

Resume_refresh_read(t) ==
    /\ task[t].pc = "ref_read"
    /\ \E r \in Outcomes(task[t].cl), data \in ModeReads :
           Commit(t, refresh_read_resume(St(t), r, data))
    /\ UNCHANGED <<rx, serVars, codecVars>>

Resume_refresh_write(t) ==
    /\ task[t].pc = "ref_write"
    /\ \E r \in Outcomes(task[t].cl) :
           Commit(t, refresh_write_resume(St(t), r))
    /\ UNCHANGED <<rx, serVars, codecVars>>

Resume_refresh_sleep(t) ==
    /\ task[t].pc = "ref_sleep"
    /\ Commit(t, refresh_sleep_resume(St(t)))
    /\ UNCHANGED <<rx, serVars, codecVars>>

Resume_read_static_pos(t) ==
    /\ task[t].pc = "pos"
    /\ \E r \in Outcomes(task[t].cl), data \in PosReads :
           Commit(t, read_static_pos_resume(St(t), r, data))
    /\ UNCHANGED <<rx, serVars, codecVars>>

Resume_start_notify(t) ==
    /\ task[t].pc = "start_notify"
    /\ \E r \in Outcomes(task[t].cl) :
           Commit(t, start_notify_resume(St(t), r))
    /\ UNCHANGED <<rx, serVars, codecVars>>

Resume_stop_notify(t) ==
    /\ task[t].pc = "stop_notify"
    /\ \E r \in Outcomes(task[t].cl) :
           Commit(t, stop_notify_resume(St(t), r))
    /\ UNCHANGED <<rx, serVars, codecVars>>

Resume_client_disconnect(t) ==
    /\ task[t].pc = "tdisc"
    /\ \E r \in {"ok", "raise"}, abort \in BOOLEAN :
           Commit(t, client_disconnect_resume(St(t), r, abort))
    /\ UNCHANGED <<rx, serVars, codecVars>>

Resume_force_disconnect(t) ==
    /\ task[t].pc = "w_disc"
    /\ \E r \in Outcomes(task[t].cl) :
           Commit(t, force_disconnect_resume(St(t), r))
    /\ UNCHANGED <<rx, serVars, codecVars>>

Resume_set_op_mode(t) ==
    /\ task[t].pc = "w_mode"
    /\ \E r \in Outcomes(task[t].cl) :
           Commit(t, set_op_mode_resume(St(t), r))
    /\ UNCHANGED <<rx, serVars, codecVars>>

\* App._ask_write_pan and App._ask_write_pos read handler.connected when the
\* button is clicked and schedule the coroutine, which starts later
Click_Write ==
    /\ NextSlot \in Tasks
    /\ connected
    /\ \E o \in {"write_pan", "write_anchor_position"} :
           task' = [task EXCEPT ![NextSlot] =
                       [IdleTask EXCEPT !.pc = "scheduled", !.op = o]]
    /\ UNCHANGED <<client, connected, notifying, ui, link, sub, rx, serVars, codecVars>>

Start_write_pan(t) ==
    /\ task[t].pc = "scheduled"
    /\ task[t].op = "write_pan"
    /\ \E pan_id \in PanIds : Commit(t, write_pan(St(t), pan_id))
    /\ UNCHANGED <<rx, serVars, codecVars>>

Start_write_anchor_position(t) ==
    /\ task[t].pc = "scheduled"
    /\ task[t].op = "write_anchor_position"
    /\ \E p \in AnchorPositions : Commit(t, write_anchor_position(St(t), p))
    /\ UNCHANGED <<rx, serVars, codecVars>>

Resume_write_pan(t) ==
    /\ task[t].pc = "w_pan"
    /\ \E r \in Outcomes(task[t].cl) : Commit(t, write_pan_resume(St(t), r))
    /\ UNCHANGED <<rx, serVars, codecVars>>

Resume_write_anchor_position(t) ==
    /\ task[t].pc = "w_apos"
    /\ \E r \in Outcomes(task[t].cl) :
           Commit(t, write_anchor_position_resume(St(t), r))
    /\ UNCHANGED <<rx, serVars, codecVars>>

\* the BLE link of an open client drops (peer out of range, peer reboot)
LinkDrop(c) ==
    /\ link[c] = "up"
    /\ link' = [link EXCEPT ![c] = "down"]
    /\ sub' = [sub EXCEPT ![c] = FALSE]
    /\ UNCHANGED <<client, connected, notifying, ui, task, rx, serVars, codecVars>>

\* the transport delivers a location frame to the registered callback
Notify(c, data) ==
    /\ link[c] = "up"
    /\ sub[c]
    /\ LET h == cb([client |-> client, connected |-> connected,
                    notifying |-> notifying, ui |-> ui, link |-> link,
                    sub |-> sub], data)
       IN  /\ client' = h.client
           /\ connected' = h.connected
           /\ notifying' = h.notifying
           /\ ui' = h.ui
           /\ link' = h.link
           /\ sub' = h.sub
    /\ rx' = [prev |-> rx.last, last |-> data]
    /\ UNCHANGED <<task, serVars, codecVars>>

\* DeviceHandler.__init__: no client, not connected, not notifying
InitHandler ==
    /\ client = None
    /\ connected = FALSE
    /\ notifying = FALSE
    /\ ui = InitUi
    /\ link = [c \in Tasks |-> "none"]
    /\ sub = [c \in Tasks |-> FALSE]
    /\ task = [t \in Tasks |-> IdleTask]
    /\ rx = [prev |-> <<>>, last |-> <<>>]

\* the BLE manager opens no serial port and runs no listener thread
NoListener ==
    /\ prog = "gui_tools"
    /\ port = FALSE
    /\ ser = None
    /\ hs = [h \in Handles |-> "new"]
    /\ at = [th \in Threads |-> "off"]
    /\ loc = [th \in Threads |-> None]
    /\ lec = [h \in Handles |-> FALSE]
    /\ replays = 0
    /\ losses = 0
    /\ quit = FALSE
    /\ cmd = <<>>
    /\ ip = [th \in Threads |-> 0]
    /\ tx = [th \in Threads |-> <<>>]
    /\ reads = 0

\* no decoder has been handed a buffer
NoCodec ==
    /\ sent = Dash
    /\ buf = <<>>
    /\ ret = [fn |-> "-", val |-> Dash]

Init == InitHandler /\ NoListener /\ NoCodec

\* the coroutines of connect and disconnect, shared by both scenarios
Lifecycle ==
    \/ Start_connect
    \/ Start_disconnect
    \/ \E t \in Tasks : Resume_connect(t)
    \/ \E t \in Tasks : Resume_connect_sleep(t)
    \/ \E t \in Tasks : Resume_read_pan(t)
    \/ \E t \in Tasks : Resume_read_mode(t)
    \/ \E t \in Tasks : Resume_refresh_read(t)
    \/ \E t \in Tasks : Resume_refresh_write(t)
    \/ \E t \in Tasks : Resume_refresh_sleep(t)
    \/ \E t \in Tasks : Resume_read_static_pos(t)
    \/ \E t \in Tasks : Resume_start_notify(t)
    \/ \E t \in Tasks : Resume_stop_notify(t)
    \/ \E t \in Tasks : Resume_client_disconnect(t)
    \/ \E c \in Tasks : LinkDrop(c)

\* Connection lifecycle: the Connect, Disc, Set Role and ForceDisc buttons
Next ==
    \/ Start_set_op_mode
    \/ Start_force_disconnect
    \/ \E t \in Tasks : Resume_force_disconnect(t)
    \/ \E t \in Tasks : Resume_set_op_mode(t)
    \/ Lifecycle

Spec == Init /\ [][Next]_vars

\* Live updates: the Connect, Disc and Loc buttons and the peer's frames
NextStream ==
    \/ Click_Loc
    \/ \E t \in Tasks : Start_start_notify(t)
    \/ \E t \in Tasks : Start_stop_notify(t)
    \/ \E c \in Tasks, data \in Frames : Notify(c, data)
    \/ Lifecycle

SpecStream == Init /\ [][NextStream]_vars

\* A later connection: the handler as Connect followed by Disc leaves it, the
\* PAN, mode and static-position labels holding what that connection read
InitReconnect ==
    /\ client = None
    /\ connected = FALSE
    /\ notifying = FALSE
    /\ ui = [InitUi EXCEPT !.log = "Disconnected",
                           !.pan = [k |-> "pan", v |-> 4660],
                           !.opmode = decode_op_mode(build_mode_config("tag")),
                           !.staticpos = decode_location_data(FrameValid)]
    /\ link = [c \in Tasks |-> "none"]
    /\ sub = [c \in Tasks |-> FALSE]
    /\ task = [t \in Tasks |-> IdleTask]
    /\ rx = [prev |-> <<>>, last |-> <<>>]
    /\ NoListener
    /\ NoCodec

SpecReconnect == InitReconnect /\ [][Lifecycle]_vars

\* Configuration writes: the WPAN and WPos dialogs with Connect and Disc
NextConfig ==
    \/ Click_Write
    \/ \E t \in Tasks : Start_write_pan(t)
    \/ \E t \in Tasks : Start_write_anchor_position(t)
    \/ \E t \in Tasks : Resume_write_pan(t)
    \/ \E t \in Tasks : Resume_write_anchor_position(t)
    \/ Lifecycle

SpecConfig == Init /\ [][NextConfig]_vars

(***************************************************************************)
(* Serial listener (listener.py, listener_mqtt.py).  The reader thread     *)
(* (uart_reader) and the command loop (main) share the global ser; a       *)
(* thread can be preempted between any two statements, so the test of ser, *)
(* the opening of the port and each blocking write are steps of their own. *)
(* The run starts when main has opened the port, started the reader and    *)
(* completed setup_listener.                                               *)
(***************************************************************************)
Live(h) == h # None /\ hs[h] = "open"

\* where a thread goes when reconnect_serial returns: uart_reader's loop or
\* main's prompt
Home(th) == IF th = "main" THEN "prompt" ELSE "poll"

\* a Serial object no longer referenced by ser or by a running function is
\* freed, which closes it (io.IOBase.__del__)
Release(h2, s2, l2) ==
    [h \in Handles |->
        IF h2[h] \in {"open", "dead"} /\ s2 # h /\ (\A th \in Threads : l2[th] # h)
        THEN "new" ELSE h2[h]]

Fresh == {h \in Handles : hs[h] = "new" /\ \A g \in Handles : hs[g] = "new" => h <= g}

\* one step of thread th: its new position and argument, the new ser
Step(th, p, s2, l, h2) ==
    /\ at' = [at EXCEPT ![th] = p]
    /\ ser' = s2
    /\ loc' = [loc EXCEPT ![th] = l]
    /\ hs' = Release(h2, s2, [loc EXCEPT ![th] = l])

\* the device is unplugged: the node disappears and I/O on every open
\* Serial object raises from now on
Unplug ==
    /\ prog # "gui_tools"
    /\ port
    /\ losses < MaxLosses
    /\ port' = FALSE
    /\ hs' = [h \in Handles |-> IF hs[h] = "open" THEN "dead" ELSE hs[h]]
    /\ losses' = losses + 1
    /\ replays' = 0
    /\ UNCHANGED <<prog, ser, at, loc, lec, quit, cmd, ip, tx, reads,
                 bleVars, codecVars>>

\* the device is plugged in again
Replug ==
    /\ prog # "gui_tools"
    /\ ~port
    /\ port' = TRUE
    /\ UNCHANGED <<prog, ser, hs, at, loc, lec, replays, losses, quit, cmd, ip, tx, reads,
                 bleVars, codecVars>>

\* uart_reader: ser.in_waiting / ser.readline() on a lost device raise
\* SerialException (ser = None, reconnect_serial()) or a plain OSError, which
\* the loop swallows
uart_reader ==
    /\ at["reader"] = "poll"
    /\ ser # None
    /\ hs[ser] = "dead"
    /\ \E e \in {"SerialException", "OSError"} :
           IF e = "SerialException"
           THEN Step("reader", "rc_loop", None, None, hs)
           ELSE Step("reader", "poll", ser, None, hs)
    /\ UNCHANGED <<prog, port, lec, replays, losses, quit, cmd, ip, tx, reads,
                 bleVars, codecVars>>

\* reconnect_serial: while ser is None: port = find_port(); if port: ...
\* (with no port the thread sleeps and tests again)
reconnect_serial(th) ==
    /\ at[th] = "rc_loop"
    /\ ser # None \/ port
    /\ IF ser # None THEN Step(th, Home(th), ser, None, hs)
       ELSE Step(th, "rc_open", ser, None, hs)
    /\ UNCHANGED <<prog, port, lec, replays, losses, quit, cmd, ip, tx, reads,
                 bleVars, codecVars>>

\* ser = serial.Serial(port, BAUD, timeout=0.1); it raises when the node has
\* gone: listener.py passes, listener_mqtt.py sets ser = None
reconnect_serial_open(th) ==
    /\ at[th] = "rc_open"
    /\ IF port
       THEN \E h \in Fresh :
                /\ Step(th, "rc_arg", h, None, [hs EXCEPT ![h] = "open"])
                /\ lec' = [lec EXCEPT ![h] = FALSE]
       ELSE /\ Step(th, "rc_loop",
                    IF prog = "listener_mqtt" THEN None ELSE ser, None, hs)
            /\ lec' = lec
    /\ UNCHANGED <<prog, port, replays, losses, quit, cmd, ip, tx, reads,
                 bleVars, codecVars>>

\* wake_shell(ser): the argument is the global as it is now.  With None,
\* listener.py raises AttributeError into the bare except; listener_mqtt.py
\* returns from wake_shell and goes on to setup_listener(ser)
reconnect_serial_arg(th) ==
    /\ at[th] = "rc_arg"
    /\ IF ser # None THEN Step(th, "rc_wake", ser, ser, hs)
       ELSE IF prog = "listener_mqtt" THEN Step(th, "su_arg", ser, None, hs)
       ELSE Step(th, "rc_loop", ser, None, hs)
    /\ UNCHANGED <<prog, port, lec, replays, losses, quit, cmd, ip, tx, reads,
                 bleVars, codecVars>>

\* wake_shell writes; then listener.py returns from reconnect_serial and
\* listener_mqtt.py calls setup_listener(ser).  A write on a lost device
\* raises: listener.py passes, listener_mqtt.py sets ser = None
wake_shell(th) ==
    /\ at[th] = "rc_wake"
    /\ IF Live(loc[th])
       THEN Step(th, IF prog = "listener_mqtt" THEN "su_arg" ELSE Home(th),
                 ser, None, hs)
       ELSE Step(th, "rc_loop", IF prog = "listener_mqtt" THEN None ELSE ser,
                 None, hs)
    /\ UNCHANGED <<prog, port, lec, replays, losses, quit, cmd, ip, tx, reads,
                 bleVars, codecVars>>

\* setup_listener(ser) called by reconnect_serial: "if not ser: return"
setup_listener(th) ==
    /\ at[th] = "su_arg"
    /\ IF ser # None
       THEN /\ Step(th, "su_reset", ser, ser, hs)
            /\ replays' = replays + 1
       ELSE /\ Step(th, Home(th), ser, None, hs)
            /\ replays' = replays
    /\ UNCHANGED <<prog, port, lec, losses, quit, cmd, ip, tx, reads,
                 bleVars, codecVars>>

\* the three blocking stretches of setup_listener: wake, reset, sleep 2;
\* wake, nis, nmp, sleep 2; wake, lec.  A write on a lost device raises and
\* setup_listener returns
SetupNext(p) == CASE p = "su_reset" -> "su_mode"
                  [] p = "su_mode" -> "su_lec"
                  [] OTHER -> "-"

setup_listener_write(th) ==
    /\ at[th] \in {"su_reset", "su_mode", "su_lec"}
    /\ IF Live(loc[th]) /\ at[th] # "su_lec"
       THEN /\ Step(th, SetupNext(at[th]), ser, loc[th], hs)
            /\ lec' = [lec EXCEPT ![loc[th]] = FALSE]
       ELSE /\ Step(th, Home(th), ser, None, hs)
            /\ lec' = IF Live(loc[th]) THEN [lec EXCEPT ![loc[th]] = TRUE]
                      ELSE lec
    /\ UNCHANGED <<prog, port, replays, losses, quit, cmd, ip, tx, reads,
                 bleVars, codecVars>>

\* command lines the user types at the prompt, as sequences of characters
UserCommands == {<<"l", "e", "s">>, <<"s", "i">>}

\* main's command loop: the user enters a command; "if ser:" write_slow(ser,
\* cmd), else listener.py prints and listener_mqtt.py calls reconnect_serial
main ==
    /\ at["main"] = "prompt"
    /\ ~quit
    /\ ser # None \/ prog = "listener_mqtt"
    /\ \E c \in UserCommands : cmd' = c
    /\ IF ser # None THEN Step("main", "m_write", ser, ser, hs)
       ELSE Step("main", "rc_loop", ser, None, hs)
    /\ UNCHANGED <<prog, port, lec, replays, losses, quit, ip, tx, reads,
                 bleVars, codecVars>>

\* write_slow(ser, cmd) in the command loop.  On a lost device it raises
\* SerialException: listener.py sets ser = None and calls reconnect_serial;
\* listener_mqtt.py does not catch it, and the program ends
write_slow ==
    /\ at["main"] = "m_write"
    /\ IF Live(loc["main"]) THEN Step("main", "prompt", ser, None, hs)
       ELSE IF prog = "listener"
       THEN Step("main", "rc_loop", None, None, hs)
       ELSE /\ at' = [th \in Threads |-> "exit"]
            /\ ser' = ser
            /\ loc' = [th \in Threads |-> None]
            /\ hs' = [h \in Handles |-> "new"]
    /\ UNCHANGED <<prog, port, lec, replays, losses, quit, cmd, ip, tx, reads,
                 bleVars, codecVars>>

\* the user types exit: the line waits on stdin until main calls input()
UserExit ==
    /\ prog # "gui_tools"
    /\ ~quit
    /\ \E th \in Threads : at[th] # "exit"
    /\ quit' = TRUE
    /\ UNCHANGED <<prog, port, ser, hs, at, loc, lec, replays, losses, cmd, ip, tx, reads,
                 bleVars, codecVars>>

\* main's command loop reads "exit": break, "if ser: ser.close()", and the
\* program ends, the daemon reader thread with it
main_exit ==
    /\ at["main"] = "prompt"
    /\ quit
    /\ at' = [th \in Threads |-> "exit"]
    /\ loc' = [th \in Threads |-> None]
    /\ hs' = [h \in Handles |-> "new"]
    /\ UNCHANGED <<prog, port, ser, lec, replays, losses, quit, cmd, ip, tx, reads,
                 bleVars, codecVars>>

\* main has opened the port, started uart_reader and run setup_listener
InitSerial(p) ==
    /\ prog = p
    /\ port = TRUE
    /\ ser = 1
    /\ hs = [h \in Handles |-> IF h = 1 THEN "open" ELSE "new"]
    /\ at = [th \in Threads |-> Home(th)]
    /\ loc = [th \in Threads |-> None]
    /\ lec = [h \in Handles |-> h = 1]
    /\ replays = 0
    /\ losses = 0
    /\ quit = FALSE
    /\ cmd = <<>>
    /\ ip = [th \in Threads |-> 0]
    /\ tx = [th \in Threads |-> <<>>]
    /\ reads = 0

\* the steps the threads take by themselves
ThreadStep ==
    \/ uart_reader
    \/ \E th \in Threads : reconnect_serial(th)
    \/ \E th \in Threads : reconnect_serial_open(th)
    \/ \E th \in Threads : reconnect_serial_arg(th)
    \/ \E th \in Threads : wake_shell(th)
    \/ write_slow
    \/ main_exit

NextListener == Unplug \/ Replug \/ main \/ UserExit \/ ThreadStep

InitListener == InitHandler /\ InitSerial("listener") /\ NoCodec

FairListener == InitListener /\ [][NextListener]_vars /\ WF_vars(ThreadStep)

NextMqtt ==
    \/ NextListener
    \/ \E th \in Threads : setup_listener(th)
    \/ \E th \in Threads : setup_listener_write(th)

InitMqtt == InitHandler /\ InitSerial("listener_mqtt") /\ NoCodec

SpecMqtt == InitMqtt /\ [][NextMqtt]_vars

(***************************************************************************)
(* The same two threads, one statement at a time.  A writing call          *)
(* (wake_shell, write_slow, setup_listener) is the sequence of its         *)
(* statements, each a ser.write of one character followed by its           *)
(* time.sleep, or a time.sleep alone (ch = ""); delays are in units of     *)
(* 10 ms.  ip counts the statements the thread has done of the call it is  *)
(* in, tx records them with the handle written to.  uart_reader reads the  *)
(* global ser anew in "if ser", in ser.in_waiting and in ser.readline().   *)
(***************************************************************************)
CR == "\r"

Sleep(d) == <<[ch |-> "", d |-> d]>>

\* wake_shell: ser.write(b"\r"); time.sleep(0.5), twice
wake_shell_ops == <<[ch |-> CR, d |-> 50], [ch |-> CR, d |-> 50]>>

\* write_slow leaving out the line terminator
write_slow_no_enter(text, p) ==
    [i \in 1..Len(text) |-> [ch |-> text[i], d |-> 5]]

\* write_slow: for ch in text: ser.write(ch.encode()); time.sleep(delay),
\* then ser.write(b"\r") and the post-command delay (0.1 s in listener.py,
\* 0.5 s in listener_mqtt.py)
write_slow_ops(text, p) ==
    [i \in 1..Len(text) + 1 |->
        IF i <= Len(text) THEN [ch |-> text[i], d |-> 5]
        ELSE [ch |-> CR, d |-> IF p = "listener" THEN 10 ELSE 50]]

RESET == <<"r", "e", "s", "e", "t">>
NIS == <<"n", "i", "s", " ", "0", "x", "1", "2", "3", "4">>
NMP == <<"n", "m", "p">>
LEC == <<"l", "e", "c">>

\* setup_listener enabling the stream before the mode is set
setup_listener_lec_first(p) ==
    wake_shell_ops \o write_slow_ops(RESET, p) \o Sleep(200)
        \o wake_shell_ops \o write_slow_ops(NIS, p) \o Sleep(50)
        \o write_slow_ops(LEC, p) \o Sleep(200)
        \o wake_shell_ops \o write_slow_ops(NMP, p)

\* the body of setup_listener's try
setup_listener_ops(p) ==
    wake_shell_ops \o write_slow_ops(RESET, p) \o Sleep(200)
        \o wake_shell_ops \o write_slow_ops(NIS, p) \o Sleep(50)
        \o write_slow_ops(NMP, p) \o Sleep(200)
        \o wake_shell_ops \o write_slow_ops(LEC, p)

\* positions in which a thread is inside a writing call
Writing == {"rc_wake", "su_reset", "m_write"}

\* the statements of the call thread th is in
Script(th) ==
    CASE at[th] = "rc_wake" -> wake_shell_ops
      [] at[th] = "su_reset" -> setup_listener_ops(prog)
      [] at[th] = "m_write" -> write_slow_ops(cmd, prog)
      [] OTHER -> <<>>

\* the statement thread th is about to execute
Pending(th) == Script(th)[ip[th] + 1]

\* where the caller goes on when the call returns
After(th) ==
    CASE at[th] = "rc_wake" ->
             IF prog = "listener_mqtt" THEN "su_arg" ELSE Home(th)
      [] at[th] = "su_reset" -> Home(th)
      [] at[th] = "m_write" -> "prompt"

\* what a thread's call has done after one more statement
Sent(th) ==
    LET ev == [h |-> loc[th], ch |-> Pending(th).ch, d |-> Pending(th).d]
    IN  [tx EXCEPT ![th] = IF ip[th] = 0 THEN <<ev>> ELSE Append(@, ev)]

\* ser.write(...) of one character on an open device and the time.sleep
\* after it; after the last statement the call returns
ser_write(th) ==
    /\ at[th] \in Writing
    /\ ip[th] < Len(Script(th))
    /\ Pending(th).ch # ""
    /\ Live(loc[th])
    /\ tx' = Sent(th)
    /\ IF ip[th] + 1 = Len(Script(th))
       THEN /\ Step(th, After(th), ser, None, hs)
            /\ ip' = [ip EXCEPT ![th] = 0]
            /\ lec' = IF at[th] = "su_reset"
                      THEN [lec EXCEPT ![loc[th]] = TRUE] ELSE lec
       ELSE /\ ip' = [ip EXCEPT ![th] = @ + 1]
            /\ lec' = IF at[th] = "su_reset"
                      THEN [lec EXCEPT ![loc[th]] = FALSE] ELSE lec
            /\ UNCHANGED <<at, ser, loc, hs>>
    /\ UNCHANGED <<prog, port, replays, losses, quit, cmd, reads,
                   bleVars, codecVars>>

\* time.sleep(2) and time.sleep(0.5) between the commands of setup_listener
time_sleep(th) ==
    /\ at[th] \in Writing
    /\ ip[th] < Len(Script(th))
    /\ Pending(th).ch = ""
    /\ tx' = Sent(th)
    /\ ip' = [ip EXCEPT ![th] = @ + 1]
    /\ UNCHANGED <<prog, port, ser, hs, at, loc, lec, replays, losses, quit,
                   cmd, reads, bleVars, codecVars>>

\* ser.write(...) on a lost device raises SerialException and the call is
\* over, nothing more of it being written.  In wake_shell
\* called by reconnect_serial: listener.py passes, listener_mqtt.py sets
\* ser = None, and the loop goes on.  In setup_listener: caught, the
\* function returns.  In main's write_slow: listener.py sets ser = None and
\* calls reconnect_serial; listener_mqtt.py does not catch it and ends
ser_write_raises(th) ==
    /\ at[th] \in Writing
    /\ ip[th] < Len(Script(th))
    /\ Pending(th).ch # ""
    /\ ~Live(loc[th])
    /\ CASE at[th] = "rc_wake" ->
                /\ Step(th, "rc_loop",
                        IF prog = "listener_mqtt" THEN None ELSE ser, None, hs)
                /\ ip' = [ip EXCEPT ![th] = 0]
                /\ tx' = [tx EXCEPT ![th] = <<>>]
         [] at[th] = "su_reset" ->
                /\ Step(th, Home(th), ser, None, hs)
                /\ ip' = [ip EXCEPT ![th] = 0]
                /\ tx' = [tx EXCEPT ![th] = <<>>]
         [] at[th] = "m_write" /\ prog = "listener" ->
                /\ Step(th, "rc_loop", None, None, hs)
                /\ ip' = [ip EXCEPT ![th] = 0]
                /\ tx' = [tx EXCEPT ![th] = <<>>]
         [] OTHER ->
                /\ at' = [u \in Threads |-> "exit"]
                /\ ser' = ser
                /\ loc' = [u \in Threads |-> None]
                /\ hs' = [h \in Handles |-> "new"]
                /\ ip' = [u \in Threads |-> 0]
                /\ tx' = [u \in Threads |-> <<>>]
    /\ UNCHANGED <<prog, port, lec, replays, losses, quit, cmd, reads,
                   bleVars, codecVars>>

\* uart_reader, "if ser": with None the loop sleeps and tests again
uart_reader_if ==
    /\ at["reader"] = "poll"
    /\ ser # None
    /\ at' = [at EXCEPT !["reader"] = "rd_waiting"]
    /\ UNCHANGED <<prog, port, ser, hs, loc, lec, replays, losses, quit,
                   cmd, ip, tx, reads, bleVars, codecVars>>

\* what using an attribute of the global ser leads to, as the reader's
\* next position and the new ser; q is where the loop goes on if nothing is
\* raised.  With ser None it is an AttributeError, which listener_mqtt.py's
\* "except Exception" reports and listener.py's handlers do not catch: the
\* thread ends.  On a lost device it is a SerialException (ser = None,
\* reconnect_serial()) or an OSError (pass)
Access(q) ==
    IF ser = None
    THEN {[at |-> IF prog = "listener_mqtt" THEN "poll" ELSE "ended",
           ser |-> ser]}
    ELSE IF Live(ser)
    THEN {[at |-> n, ser |-> ser] : n \in q}
    ELSE {[at |-> "rc_loop", ser |-> None], [at |-> "poll", ser |-> ser]}

\* "ser.in_waiting > 0": a line is waiting or not (the peer sends MaxReads
\* lines at most)
uart_reader_in_waiting ==
    /\ at["reader"] = "rd_waiting"
    /\ \E n \in Access(IF reads < MaxReads THEN {"rd_line", "poll"}
                        ELSE {"poll"}) :
           Step("reader", n.at, n.ser, None, hs)
    /\ UNCHANGED <<prog, port, lec, replays, losses, quit, cmd, ip, tx, reads,
                   bleVars, codecVars>>

\* "line = ser.readline()..."
uart_reader_readline ==
    /\ at["reader"] = "rd_line"
    /\ \E n \in Access({"poll"}) :
           /\ Step("reader", n.at, n.ser, None, hs)
           /\ reads' = IF ser # None /\ Live(ser) THEN reads + 1 ELSE reads
    /\ UNCHANGED <<prog, port, lec, replays, losses, quit, cmd, ip, tx,
                   bleVars, codecVars>>

\* main has opened the port and started uart_reader.  listener_mqtt.py is
\* followed from main's call of setup_listener(ser), listener.py from the
\* command loop
InitWire ==
    /\ InitHandler
    /\ NoCodec
    /\ \/ InitSerial("listener")
       \/ /\ prog = "listener_mqtt"
          /\ port = TRUE
          /\ ser = 1
          /\ hs = [h \in Handles |-> IF h = 1 THEN "open" ELSE "new"]
          /\ at = [th \in Threads |-> IF th = "main" THEN "su_reset" ELSE "poll"]
          /\ loc = [th \in Threads |-> IF th = "main" THEN 1 ELSE None]
          /\ lec = [h \in Handles |-> FALSE]
          /\ replays = 0
          /\ losses = 0
          /\ quit = FALSE
          /\ cmd = <<>>
          /\ ip = [th \in Threads |-> 0]
          /\ tx = [th \in Threads |-> <<>>]
    /\ reads = 0

NextWire ==
    \/ Unplug
    \/ Replug
    \/ main
    \/ uart_reader
    \/ \E th \in Threads : reconnect_serial(th)
    \/ \E th \in Threads : reconnect_serial_open(th)
    \/ \E th \in Threads : reconnect_serial_arg(th)
    \/ \E th \in Threads : setup_listener(th)
    \/ \E th \in Threads : ser_write(th)
    \/ \E th \in Threads : time_sleep(th)
    \/ \E th \in Threads : ser_write_raises(th)

SpecWire == InitWire /\ [][NextWire]_vars

\* listener.py with the reader's three uses of the global ser as steps of
\* their own
NextRace ==
    \/ Unplug
    \/ Replug
    \/ main
    \/ UserExit
    \/ main_exit
    \/ \E th \in Threads : reconnect_serial(th)
    \/ \E th \in Threads : reconnect_serial_open(th)
    \/ \E th \in Threads : reconnect_serial_arg(th)
    \/ \E th \in Threads : wake_shell(th)
    \/ write_slow
    \/ uart_reader_if
    \/ uart_reader_in_waiting
    \/ uart_reader_readline

SpecRace == InitListener /\ [][NextRace]_vars

(***************************************************************************)
(* The position decoders, each handed a buffer of the location             *)
(* characteristic: the type byte, x, y, z as little-endian signed 32 bit   *)
(* millimetres and the quality byte, cut or padded to the buffer's length. *)
(***************************************************************************)
MaxLen == 15

Lengths == {5} \cup (13..MaxLen)

Positions ==
    [type : {0, 2, 7}, x : {1000, -1000}, y : {2000, -1}, z : {1500, -1500},
     q : {100, 0}]

position_frame(p) ==
    <<p.type>> \o PackLE32(p.x) \o PackLE32(p.y) \o PackLE32(p.z) \o <<p.q>>

Buffer(p, n) ==
    IF n <= 14 THEN SubSeq(position_frame(p), 1, n)
    ELSE position_frame(p) \o [i \in 1..(n - 14) |-> 0]

\* _cb: the notification is shown in the live stream label
Do_decode_location_data ==
    /\ ret' = [fn |-> "decode_location_data", val |-> decode_location_data(buf)]
    /\ UNCHANGED <<sent, buf, bleVars, serVars>>

\* get_anchor_pos.py reads the location characteristic once
Do_get_anchor_pos ==
    /\ ret' = [fn |-> "get_anchor_pos", val |-> get_anchor_pos(buf)]
    /\ UNCHANGED <<sent, buf, bleVars, serVars>>

\* notification_handler: pos = parse_position(data)
Do_parse_position ==
    /\ ret' = [fn |-> "parse_position", val |-> parse_position(buf)]
    /\ UNCHANGED <<sent, buf, bleVars, serVars>>

InitCodec ==
    /\ InitHandler
    /\ NoListener
    /\ \E p \in Positions, n \in Lengths :
           /\ sent = p
           /\ buf = Buffer(p, n)
    /\ ret = [fn |-> "-", val |-> Dash]

NextCodec == Do_decode_location_data \/ Do_get_anchor_pos \/ Do_parse_position

SpecCodec == InitCodec /\ [][NextCodec]_vars

(***************************************************************************)
(* The codecs of the configuration records: the anchor position payload,   *)
(* the operation mode and the PAN ID.  Each decoder is handed the buffers   *)
(* of its own characteristic.                                              *)
(***************************************************************************)
\* what the Write Anchor Position dialog accepts: integers and 0 <= q <= 100
AnchorStatics ==
    [x : {1000, -1000, 2147483647, -2147483647 - 1}, y : {2000, -1},
     z : {1500, -1500}, q : {0, 100}]

\* every setting of the two mode bytes, by field
ModeBits ==
    [anchor : BOOLEAN, uwb : 0..3, fw : 0..1, accel : BOOLEAN, led : BOOLEAN,
     fw_update : BOOLEAN, ble : BOOLEAN, initiator : BOOLEAN,
     low_power : BOOLEAN, loc_engine : BOOLEAN, rest : {0, 31},
     extra : {<<>>, <<9>>}]

B(b) == IF b THEN 1 ELSE 0

mode_bytes(m) ==
    <<128 * B(m.anchor) + 32 * m.uwb + 16 * m.fw + 8 * B(m.accel)
          + 4 * B(m.led) + 2 * B(m.fw_update) + B(m.ble),
      128 * B(m.initiator) + 64 * B(m.low_power) + 32 * B(m.loc_engine)
          + m.rest>> \o m.extra

\* what the PAN dialog accepts: 0 <= pan_id <= 0xFFFF
PanValues == [pan : 0..(2 ^ 16 - 1), extra : {<<>>, <<7>>}]

ShortBuffers == {<<>>, <<0>>, <<255>>}

\* the peer holds record v of the given layout, encoded as b
Holds(layout, v, b) ==
    /\ sent = [layout |-> layout, v |-> v]
    /\ buf = b

Do_parse_anchor_static_write ==
    /\ sent.layout = "anchor_static"
    /\ ret' = [fn |-> "parse_anchor_static_write",
               val |-> parse_anchor_static_write(buf)]
    /\ UNCHANGED <<sent, buf, bleVars, serVars>>

Do_decode_op_mode ==
    /\ sent.layout \in {"mode_config", "mode"}
    /\ ret' = [fn |-> "decode_op_mode", val |-> decode_op_mode(buf)]
    /\ UNCHANGED <<sent, buf, bleVars, serVars>>

\* _read_pan, resumed with the bytes read: what the PAN label shows then
Do_read_pan ==
    /\ sent.layout = "pan_id"
    /\ ret' = [fn |-> "_read_pan",
               val |-> read_pan_resume(St(1), "ok", buf).ui.pan]
    /\ UNCHANGED <<sent, buf, bleVars, serVars>>

Do_read_write_pansid ==
    /\ sent.layout = "pan_id"
    /\ ret' = [fn |-> "read_write_pansid", val |-> read_write_pansid(buf)]
    /\ UNCHANGED <<sent, buf, bleVars, serVars>>

InitRecords ==
    /\ InitHandler
    /\ NoListener
    /\ \/ \E p \in AnchorStatics : Holds("anchor_static", p, pack_iiiB(p))
       \/ \E r \in {"tag", "anchor"} :
              Holds("mode_config", r, build_mode_config(r))
       \/ \E m \in ModeBits : Holds("mode", m, mode_bytes(m))
       \/ \E b \in ShortBuffers : Holds("mode", b, b)
       \/ \E p \in PanValues : Holds("pan_id", p.pan, PackLE16(p.pan) \o p.extra)
       \/ \E b \in ShortBuffers : Holds("pan_id", b, b)
    /\ ret = [fn |-> "-", val |-> Dash]

NextRecords ==
    \/ Do_parse_anchor_static_write
    \/ Do_decode_op_mode
    \/ Do_read_pan
    \/ Do_read_write_pansid

SpecRecords == InitRecords /\ [][NextRecords]_vars

\* Every button of a device row: lifecycle, role and configuration writes
NextButtons == Next \/ NextConfig

SpecButtons == Init /\ [][NextButtons]_vars

\* every suspended coroutine is eventually resumed by the event loop; the
\* user need not click and the link need not drop
Resume ==
    \E t \in Tasks :
        \/ Resume_connect(t) \/ Resume_connect_sleep(t) \/ Resume_read_pan(t)
        \/ Resume_read_mode(t) \/ Resume_refresh_read(t)
        \/ Resume_refresh_write(t) \/ Resume_refresh_sleep(t)
        \/ Resume_read_static_pos(t) \/ Resume_start_notify(t)
        \/ Resume_stop_notify(t) \/ Resume_client_disconnect(t)
        \/ Resume_force_disconnect(t) \/ Resume_set_op_mode(t)

FairSpec == Spec /\ WF_vars(Resume)

(***************************************************************************)
(* Claims about the DeviceHandler                                          *)
(***************************************************************************)
Disconnected == client = None /\ ~connected /\ ~notifying

\* this step starts coroutine t, running operation o
Starts(t, o) == task[t].pc = "idle" /\ task'[t].pc # "idle" /\ task'[t].op = o

\* this step is the one in which coroutine t, running operation o, returns
Returns(t, o) == task[t].pc # "done" /\ task'[t].pc = "done" /\ task'[t].op = o

\* C1: set_op_mode invoked on a connected session leaves the session
\* Disconnected when it returns, whether the mode write succeeded or failed.
C1_SetRoleAlwaysDisconnects ==
    [][\A t \in Tasks :
          (Returns(t, "set_op_mode") /\ task'[t].out # "not_connected")
              => Disconnected']_vars

\* C2: once the link of a Subscribed session has dropped, the session becomes
\* Disconnected (connected and notifying false) with no disconnect request.
C2_LossDisconnects ==
    (client # None /\ link[client] = "down" /\ connected /\ notifying)
        ~> (~connected /\ ~notifying)

PosValid == [k |-> "pos", type |-> 0, x |-> 1000, y |-> 2000, z |-> 1500,
             q |-> 100]

\* C5: the delivery of a frame, malformed or not, leaves the subscription as
\* it was (notifying, the registered callback, the link), and a well-formed
\* frame becomes the live position whatever was delivered before it.
C5_MalformedFrameKeepsStream ==
    [][\A c \in Tasks, f \in Frames :
          Notify(c, f) =>
              /\ notifying' = notifying
              /\ connected' = connected
              /\ client' = client
              /\ sub' = sub
              /\ link' = link
              /\ (f = FrameValid => ui'.livestream = PosValid)]_vars

\* a malformed frame was delivered to a notifying session, then a valid one,
\* which is now the live position
C5_Witness ==
    /\ rx.prev \in {FrameShort, FrameBadType}
    /\ rx.last = FrameValid
    /\ notifying
    /\ ui.livestream = PosValid

\* C6: when a connect and a disconnect of the same session have both
\* finished, however they interleaved, the session is Disconnected and no
\* transport connection is open.
C6_DisconnectDuringConnect ==
    (/\ task[1].op = "connect" /\ task[1].pc = "done"
     /\ task[2].op = "disconnect" /\ task[2].pc = "done"
     /\ \A t \in Tasks : t > 2 => task[t].pc = "idle")
        => (Disconnected /\ \A c \in Tasks : link[c] # "up")

\* C7: disconnect on a Disconnected session returns at once, normally, with
\* no transport call, and leaves the session and the transport as they were.
C7_DisconnectIdempotent ==
    [][\A t \in Tasks :
          (Starts(t, "disconnect") /\ Disconnected)
              => /\ task'[t].pc = "done"
                 /\ task'[t].out = "disconnected"
                 /\ task'[t].tr = <<>>
                 /\ Disconnected'
                 /\ link' = link
                 /\ sub' = sub]_vars

\* two disconnects in succession, the second having found the session
\* Disconnected and issued no transport call
C7_Witness ==
    \E t, u \in Tasks :
        /\ t < u
        /\ task[t].op = "disconnect" /\ task[t].pc = "done"
        /\ task[u].op = "disconnect" /\ task[u].pc = "done"
        /\ task[u].tr = <<>>
        /\ Disconnected

\* C8: connect on a connected session returns at once with no client
\* created, no transport call, and client, connected, notifying unchanged.
C8_ConnectWhenConnectedIsNoOp ==
    [][\A t \in Tasks :
          (Starts(t, "connect") /\ connected)
              => /\ task'[t].pc = "done"
                 /\ task'[t].tr = <<>>
                 /\ client' = client
                 /\ connected' = connected
                 /\ notifying' = notifying
                 /\ link' = link
                 /\ sub' = sub]_vars

\* a second connect found the session connected and returned
C8_Witness ==
    \E t, u \in Tasks :
        /\ t < u
        /\ task[t].op = "connect"
        /\ task[u].op = "connect" /\ task[u].pc = "done"
        /\ task[u].out = "already_connected"
        /\ connected /\ client = t /\ link[t] = "up"

\* C10: force_disconnect_via_char that found a connected transport has, when
\* it returns, written the 1-byte record <<1>> to the disconnect channel
\* first, issued only teardown calls after it, and left the session
\* Disconnected, whether that write succeeded or raised.
C10_ForceDisconnect ==
    [][\A t \in Tasks :
          (Returns(t, "force_disconnect") /\ task'[t].out # "not_connected")
              => /\ Disconnected'
                 /\ Len(task'[t].tr) >= 1
                 /\ task'[t].tr[1].call = "write"
                 /\ task'[t].tr[1].chan = DISCONNECT_UUID
                 /\ task'[t].tr[1].data = <<1>>
                 /\ \A i \in 2..Len(task'[t].tr) :
                        task'[t].tr[i].call \in {"stop_notify", "disconnect"}]_vars

\* a forced disconnect whose write raised has torn the session down
C10_Witness ==
    \E t \in Tasks :
        /\ task[t].op = "force_disconnect" /\ task[t].pc = "done"
        /\ Len(task[t].tr) = 2
        /\ task[t].tr[1].res = "raise"
        /\ task[t].tr[2].call = "disconnect"
        /\ Disconnected

\* the last transport call coroutine t has issued
LastCall(t) == task'[t].tr[Len(task'[t].tr)]

\* C11: in the post-connect sequence of connect, when the PAN, mode or
\* static-position read returns, failed or not, and the handler's client is
\* still up, the next call of the sequence is issued (the mode read, the
\* refresh's read, the subscription request) and the session stays connected.
C11_PostConnectReadsBestEffort ==
    [][\A t \in Tasks :
          (/\ task[t].op = "connect"
           /\ task[t].pc \in {"pan", "mode", "pos"}
           /\ task'[t] # task[t]
           /\ client' # None
           /\ link'[client'] = "up")
              => /\ connected' /\ connected
                 /\ task[t].pc = "pan" =>
                        /\ task'[t].pc = "mode"
                        /\ LastCall(t).call = "read"
                        /\ LastCall(t).chan = OP_MODE_UUID
                 /\ task[t].pc = "mode" =>
                        /\ task'[t].pc = "ref_read"
                        /\ LastCall(t).call = "read"
                 /\ task[t].pc = "pos" =>
                        /\ task'[t].pc = "start_notify"
                        /\ LastCall(t).call = "start_notify"
                        /\ LastCall(t).chan = LOCATION_UUID]_vars

\* a connect whose PAN, mode and static-position reads all failed has issued
\* every call of the sequence and the session is connected and notifying
C11_Witness ==
    \E t \in Tasks :
        /\ task[t].op = "connect" /\ task[t].pc = "done"
        /\ task[t].out = "connected"
        /\ ui.pan = Dash /\ ui.opmode = Dash /\ ui.staticpos = Dash
        /\ Len(task[t].tr) = 6
        /\ task[t].tr[2].chan = NETWORK_ID_UUID
        /\ task[t].tr[3].chan = OP_MODE_UUID
        /\ task[t].tr[5].chan = LOCATION_UUID
        /\ task[t].tr[6].call = "start_notify"
        /\ connected /\ notifying /\ client = t /\ sub[t]

\* C12: when the handshake of a connect on a Disconnected session fails (it
\* raises, or returns with the link not up), connect returns in that step
\* having issued no call but the handshake, the session is still not
\* connected and not notifying, and the status label reports the failure.
C12_ConnectFailureStaysDisconnected ==
    [][\A t \in Tasks :
          (/\ task[t].op = "connect"
           /\ task[t].pc = "connect"
           /\ task'[t] # task[t]
           /\ link'[task[t].cl] # "up"
           /\ ~connected /\ ~notifying)
              => /\ ~connected' /\ ~notifying'
                 /\ task'[t].pc = "done"
                 /\ task'[t].out \in {"failed", "error"}
                 /\ Len(task'[t].tr) = 1
                 /\ ui'.status \in {"FAILED", "ERR"}]_vars

\* a connect whose handshake completed without a connection has returned
\* with status FAILED and the session not connected
C12_Witness ==
    \E t \in Tasks :
        /\ task[t].op = "connect" /\ task[t].pc = "done"
        /\ task[t].out = "failed"
        /\ link[t] = "down"
        /\ ui.status = "FAILED"
        /\ ~connected /\ ~notifying

\* a configuration write of coroutine t has just succeeded and the handler's
\* client is still up
WriteSucceeded(t) ==
    /\ task[t].op \in {"write_pan", "write_anchor_position"}
    /\ task[t].pc \in {"w_pan", "w_apos"}
    /\ task'[t] # task[t]
    /\ task'[t].tr[1].res = "ok"
    /\ client' # None
    /\ link'[client'] = "up"

\* C13 as stated: a successful write_pan or write_anchor_position is followed
\* by a read of the channel that was written.
C13_ReadBackSameChannel ==
    [][\A t \in Tasks :
          WriteSucceeded(t)
              => /\ LastCall(t).call = "read"
                 /\ LastCall(t).chan = task[t].tr[1].chan]_vars

\* the channel on which each written field is read back
ReadBackChannel(chan) ==
    IF chan = ANCHOR_POS_UUID THEN LOCATION_UUID ELSE chan

\* C13 amended: a successful write_pan is followed by a read of the PAN
\* channel and a successful write_anchor_position by a read of the location
\* channel, before the operation completes; when that read succeeds the
\* handler's PAN or static-position label holds the value read.
C13_ReadBackSameField ==
    [][\A t \in Tasks :
          /\ WriteSucceeded(t)
                => /\ task'[t].pc \in {"pan", "pos"}
                   /\ LastCall(t).call = "read"
                   /\ LastCall(t).chan = ReadBackChannel(task[t].tr[1].chan)
          /\ (/\ task[t].op \in {"write_pan", "write_anchor_position"}
              /\ task[t].pc \in {"pan", "pos"}
              /\ task'[t] # task[t])
                => /\ task'[t].pc = "done"
                   /\ task'[t].out = "written"
                   /\ ui'.log = "Read PAN" => ui'.pan = [k |-> "pan", v |-> 4660]
                   /\ ui'.log = "Read RPos (14-byte) success."
                          => ui'.staticpos = PosValid]_vars

\* a write_anchor_position that wrote the position channel, read the
\* location channel and updated the static-position label
C13_Witness ==
    \E t \in Tasks :
        /\ task[t].op = "write_anchor_position" /\ task[t].pc = "done"
        /\ task[t].out = "written"
        /\ Len(task[t].tr) = 2
        /\ task[t].tr[1].chan = ANCHOR_POS_UUID /\ task[t].tr[1].res = "ok"
        /\ task[t].tr[1].data = <<232, 3, 0, 0, 208, 7, 0, 0, 220, 5, 0, 0, 100>>
        /\ task[t].tr[2].call = "read" /\ task[t].tr[2].chan = LOCATION_UUID
        /\ ui.log = "Read RPos (14-byte) success."
        /\ ui.staticpos = PosValid

\* C14: when the write of write_pan or write_anchor_position raises, the
\* operation returns in that step with an error line in the log, no further
\* transport call, and client, connected, notifying and the links unchanged.
C14_WriteErrorKeepsSession ==
    [][\A t \in Tasks :
          (/\ task[t].op \in {"write_pan", "write_anchor_position"}
           /\ task[t].pc \in {"w_pan", "w_apos"}
           /\ task'[t] # task[t]
           /\ task'[t].tr[1].res = "raise")
              => /\ task'[t].pc = "done"
                 /\ task'[t].out = "error"
                 /\ Len(task'[t].tr) = 1
                 /\ ui'.log \in {"Write PAN Err", "Write ApoS err"}
                 /\ client' = client
                 /\ connected' = connected
                 /\ notifying' = notifying
                 /\ link' = link
                 /\ sub' = sub]_vars

\* a write_pan whose write raised on an open link has returned with the
\* session connected as before
C14_Witness ==
    \E t \in Tasks :
        /\ task[t].op = "write_pan" /\ task[t].pc = "done"
        /\ task[t].out = "error"
        /\ task[t].tr[1].res = "raise"
        /\ ui.log = "Write PAN Err"
        /\ connected /\ client # None /\ link[client] = "up"

\* C15: operations of the session are processed in submission order: a
\* coroutine issues a transport call only while no coroutine scheduled after
\* it has issued one.
C15_SubmissionOrder ==
    [][\A u, t \in Tasks :
          (u < t /\ Len(task'[u].tr) > Len(task[u].tr))
              => Len(task[t].tr) = 0]_vars

\* this step resumes a Stop Loc coroutine whose stop_notify call raised: it
\* returns with the live updates still marked on
StopFailed(t) ==
    /\ task[t].pc = "stop_notify"
    /\ Returns(t, "stop_notify")
    /\ notifying'

\* C17: an operation that fails reports a terminal status: the step in which
\* a stop of the live updates fails writes a log record.
C17_FailureReported ==
    [][\A t \in Tasks : StopFailed(t) => ui'.log # ui.log]_vars

\* C26: the delivery of a malformed frame (5 bytes, or type byte 7) leaves
\* the live position the session shows as it was.
C26_MalformedFrameDropped ==
    [][\A c \in Tasks, f \in {FrameShort, FrameBadType} :
          Notify(c, f) => ui'.livestream = ui.livestream]_vars

\* C27: a disconnect started on a connected, subscribed session first calls
\* stop_notify; when that call returns, failed or not, and the session still
\* holds a client, it calls the transport's disconnect; and it returns
\* normally with the session Disconnected.
C27_DisconnectCleanup ==
    [][\A t \in Tasks :
          /\ (/\ Starts(t, "disconnect")
              /\ connected /\ notifying /\ client # None
              /\ link[client] = "up")
                 => (Len(task'[t].tr) = 1 /\ LastCall(t).call = "stop_notify")
          /\ (/\ task[t].op = "disconnect"
              /\ task[t].pc = "stop_notify"
              /\ task'[t].pc # "stop_notify"
              /\ client # None)
                 => (Len(task'[t].tr) = 2 /\ LastCall(t).call = "disconnect")
          /\ Returns(t, "disconnect")
                 => (Disconnected' /\ task'[t].out = "disconnected")]_vars

\* the unsubscribe of a disconnect has failed (the session is still marked
\* notifying) and the disconnect is now in the transport close
C27_Witness ==
    \E t \in Tasks :
        /\ task[t].op = "disconnect"
        /\ task[t].pc = "tdisc"
        /\ Len(task[t].tr) = 2
        /\ task[t].tr[1].call = "stop_notify"
        /\ notifying

\* C28: the post-connect sequence issues the static-position read only for
\* an anchor: never when the mode it has just read decodes to a tag.
C28_StaticPosOnlyForAnchor ==
    [][\A t \in Tasks :
          (/\ task[t].op = "connect"
           /\ Len(task'[t].tr) > Len(task[t].tr)
           /\ LastCall(t).call = "read"
           /\ LastCall(t).chan = LOCATION_UUID
           /\ ui'.opmode.k = "mode")
              => ui'.opmode.type = "Anchor"]_vars

\* C29: when the PAN read of a configuration sequence fails, the session's
\* PAN field is absent afterwards: it holds no value of an earlier connection.
C29_FailedReadLeavesNone ==
    [][\A t \in Tasks :
          (/\ task[t].op = "connect"
           /\ task[t].pc = "pan"
           /\ task'[t].pc # "pan"
           /\ ui'.log = "Read PAN Err")
              => ui'.pan = Dash]_vars

\* C30: every step of _force_config_refresh after its read, whether the read
\* or the write succeeded or failed, leaves connected, notifying, the client
\* and the PAN, mode and static-position fields as they were, and the only
\* write it issues goes to the mode channel with the bytes that channel
\* returns.
C30_RefreshIsNoOp ==
    [][\A t \in Tasks :
          (task[t].pc \in {"ref_read", "ref_write", "ref_sleep"}
           /\ task'[t] # task[t])
              => /\ connected' = connected
                 /\ notifying' = notifying
                 /\ client' = client
                 /\ ui'.pan = ui.pan
                 /\ ui'.opmode = ui.opmode
                 /\ ui'.staticpos = ui.staticpos
                 /\ (Len(task'[t].tr) > Len(task[t].tr)
                     /\ LastCall(t).call = "write")
                        => /\ task[t].pc = "ref_read"
                           /\ LastCall(t).chan = OP_MODE_UUID
                           /\ LastCall(t).data \in ModeReads]_vars

\* a refresh has written the mode back and the write has succeeded
C30_Witness ==
    \E t \in Tasks :
        /\ task[t].pc = "ref_sleep"
        /\ Len(task[t].tr) = 5
        /\ task[t].tr[5] = [call |-> "write", chan |-> OP_MODE_UUID,
                            data |-> build_mode_config("tag"), res |-> "ok"]
        /\ connected
        /\ ui.opmode = decode_op_mode(build_mode_config("tag"))

\* C31: when an explicit disconnect returns, the session's sub-fields are
\* reset: no live position, PAN ID, mode or static position, and notifying
\* is false.
C31_DisconnectResetsFields ==
    [][\A t \in Tasks :
          Returns(t, "disconnect")
              => /\ ~notifying'
                 /\ ui'.livestream = Dash
                 /\ ui'.pan = Dash
                 /\ ui'.opmode = Dash
                 /\ ui'.staticpos = Dash]_vars

\* the handler has no connected transport
NoTransport == client = None \/ link[client] # "up"

\* C32: write_pan, write_anchor_position, set_op_mode and
\* force_disconnect_via_char started on a session with no connected
\* transport return at once: no transport call, the log says "Not connected",
\* and client, connected and notifying are unchanged.
C32_NotConnectedGuard ==
    [][\A t \in Tasks :
          (/\ task[t].pc \in {"idle", "scheduled"}
           /\ task'[t].pc \notin {"idle", "scheduled"}
           /\ task'[t].op \in {"write_pan", "write_anchor_position",
                               "set_op_mode", "force_disconnect"}
           /\ NoTransport)
              => /\ task'[t].pc = "done"
                 /\ task'[t].tr = <<>>
                 /\ task'[t].out = "not_connected"
                 /\ ui'.log = "Not connected"
                 /\ client' = client
                 /\ connected' = connected
                 /\ notifying' = notifying]_vars

\* a PAN write scheduled on a connected session found the link gone and
\* returned without a call, the session still marked connected
C32_Witness ==
    \E t \in Tasks :
        /\ task[t].op = "write_pan"
        /\ task[t].pc = "done"
        /\ task[t].out = "not_connected"
        /\ task[t].tr = <<>>
        /\ ui.log = "Not connected"
        /\ connected /\ client # None /\ link[client] = "down"

\* C33: every write that reaches the transport on the anchor-position
\* channel carries a quality in 0..100, and every write on the PAN channel
\* the two bytes of an entered value in 0..65535.
C33_OnlyValidatedWrites ==
    [][\A t \in Tasks :
          (Len(task'[t].tr) > Len(task[t].tr) /\ LastCall(t).call = "write")
              => /\ LastCall(t).chan = ANCHOR_POS_UUID
                        => /\ Len(LastCall(t).data) = 13
                           /\ LastCall(t).data[13] \in 0..100
                 /\ LastCall(t).chan = NETWORK_ID_UUID
                        => \E v \in PanEntries :
                               /\ v \in 0..65535
                               /\ LastCall(t).data = PackLE16(v)]_vars

\* an anchor position with the largest accepted quality has been written to
\* the transport
C33_Witness ==
    \E t \in Tasks :
        /\ task[t].op = "write_anchor_position"
        /\ Len(task[t].tr) >= 1
        /\ task[t].tr[1].chan = ANCHOR_POS_UUID
        /\ task[t].tr[1].data[13] = 100
        /\ task[t].tr[1].res = "ok"

\* only connect coroutines have been scheduled on the handler
OnlyConnects == \A t \in Tasks : task[t].op \in {"-", "connect"}

\* the transport clients of the device whose connection is open
OpenClients == {c \in Tasks : link[c] = "up"}

\* C36: while only connect requests run on a handler, at most one transport
\* client of the device is open, and an open client is the one the handler's
\* client field refers to.
C36_SingleTransport ==
    OnlyConnects
        => /\ Cardinality(OpenClients) <= 1
           /\ \A c \in OpenClients : c = client

\* C37: notifying implies connected, and connected implies that the handler
\* has a client.
C37_FlagsConsistent ==
    /\ notifying => connected
    /\ connected => client # None

(***************************************************************************)
(* Claims about the serial listener                                        *)
(***************************************************************************)
\* the stream is enabled on the handle the program holds
Subscribed == Live(ser) /\ lec[ser]

\* C3: if the port ends up available for good, every detected loss (ser set
\* to None) is followed by a state in which the configuration sequence ending
\* with lec has been issued on the handle the program holds.
C3_ReconnectResubscribes == <>[]port => [](ser = None => <>Subscribed)

\* both threads are back in their loops on a handle opened after a loss
Recovered ==
    /\ losses > 0
    /\ \A th \in Threads : at[th] = Home(th)
    /\ Live(ser)

\* C4: setup_listener is never begun twice for one loss, and when both
\* threads are back in their loops on a reacquired port it has been begun
\* once.
C4_ReplayExactlyOnce == replays <= 1 /\ (Recovered => replays = 1)

\* C9: at most one Serial object is open on the port at any time.
C9_OneOpenHandle == Cardinality({h \in Handles : hs[h] = "open"}) <= 1

\* the program has ended
Ended == \A th \in Threads : at[th] = "exit"

\* C16: once the user has typed exit while the port is unavailable, the
\* program ends (no thread is left polling in reconnect_serial) unless the
\* port comes back first.
C16_ReconnectCancellable == [](quit /\ ~port => <>(port \/ Ended))

\* a sleep of two seconds or more, as an entry in a list of command lines
WAIT == <<"wait">>

\* the command lines a call has completed (done) and the characters of the
\* line it is in (cur), read off the first n statements it has executed: a
\* carriage return ends a line, a sleep of 2 s or more counts as a wait
RECURSIVE Lines(_, _)
Lines(t, n) ==
    IF n = 0 THEN [done |-> <<>>, cur |-> <<>>]
    ELSE LET l == Lines(t, n - 1)
             e == t[n]
         IN  IF e.ch = ""
             THEN IF e.d >= 200 THEN [l EXCEPT !.done = Append(@, WAIT)] ELSE l
             ELSE IF e.ch = CR
             THEN [done |-> Append(l.done, l.cur), cur |-> <<>>]
             ELSE [l EXCEPT !.cur = Append(@, e.ch)]

IsPrefix(a, b) == Len(a) <= Len(b) /\ \A i \in 1..Len(a) : a[i] = b[i]

\* wake (two empty lines), reset, wait, wake, nis, nmp, wait, wake, lec
SetupOrder ==
    << <<>>, <<>>, RESET, WAIT, <<>>, <<>>, NIS, NMP, WAIT, <<>>, <<>>, LEC >>

\* thread th is in setup_listener and has just executed a statement of it
SetupStep(th) ==
    at[th] = "su_reset" /\ tx'[th] # tx[th] /\ tx'[th] # <<>>

\* thread th leaves setup_listener before its last statement
SetupAborted(th) ==
    /\ at[th] = "su_reset"
    /\ at'[th] # "su_reset"
    /\ ip[th] + 1 < Len(Script(th))

\* C34: what a run of setup_listener has sent is at every point the
\* beginning of wake, reset, wait, wake, nis, nmp, wait, wake, lec, in that
\* order with nothing sent twice; the run returns normally exactly when all
\* of it has been sent; a serial error ends the run with nothing more sent.
C34_SetupOrder ==
    [][\A th \in Threads :
          /\ SetupStep(th)
                => LET l == Lines(tx'[th], Len(tx'[th]))
                   IN  /\ IsPrefix(l.done, SetupOrder)
                       /\ l.cur # <<>>
                              => /\ Len(l.done) < Len(SetupOrder)
                                 /\ IsPrefix(l.cur, SetupOrder[Len(l.done) + 1])
                       /\ at'[th] # "su_reset" <=> l.done = SetupOrder
                       /\ \A i \in 1..Len(tx'[th]) : tx'[th][i].h = loc[th]
          /\ SetupAborted(th)
                => /\ ~Live(loc[th]) \/ at'[th] = "exit"
                   /\ tx'[th] = <<>>
                   /\ ip'[th] = 0
                   /\ at'[th] \in {Home(th), "exit"}]_vars

\* the reader thread has replayed the whole sequence on a handle opened after
\* a loss and is back in its loop
C34_Witness ==
    /\ at["reader"] = "poll"
    /\ tx["reader"] # <<>>
    /\ Lines(tx["reader"], Len(tx["reader"])).done = SetupOrder
    /\ tx["reader"][1].h # 1

\* C35: after each write of write_slow(ser, text) in the command loop, what
\* the call has written is the first characters of text, one per write and in
\* their order, each followed by the pacing delay, all on the handle passed;
\* the carriage return is written once, after the last character, and the
\* call returns with it.
C35_WriteSlowInOrder ==
    [][(at["main"] = "m_write" /\ tx'["main"] # tx["main"] /\ tx'["main"] # <<>>)
          => LET w == tx'["main"]
                 n == Len(w)
             IN  /\ n <= Len(cmd) + 1
                 /\ n = IF at'["main"] = "m_write" THEN ip'["main"]
                        ELSE Len(cmd) + 1
                 /\ \A i \in 1..n :
                        /\ w[i].h = loc["main"]
                        /\ IF i <= Len(cmd)
                           THEN w[i].ch = cmd[i] /\ w[i].d = 5
                           ELSE w[i].ch = CR /\ w[i].d > 0
                 /\ at'["main"] = "prompt" <=> n = Len(cmd) + 1]_vars

\* the command les has been written whole on a handle opened after a loss
\* and main is back at the prompt
C35_Witness ==
    /\ at["main"] = "prompt"
    /\ cmd = <<"l", "e", "s">>
    /\ Len(tx["main"]) = 4
    /\ \A i \in 1..3 : tx["main"][i].ch = cmd[i]
    /\ tx["main"][4].ch = CR
    /\ tx["main"][1].h # 1

\* C38: the reader thread does not end while the program runs.
C38_ReaderKeepsRunning == at["reader"] # "ended"

\* thread o has written the first character of a command line on handle h
\* and not yet its carriage return
OpenLine(o, h) ==
    /\ at[o] \in {"su_reset", "m_write"}
    /\ loc[o] = h
    /\ ip[o] > 0
    /\ tx[o][Len(tx[o])].ch \notin {CR, ""}

\* thread th has just written a character
Wrote(th) ==
    /\ at[th] \in Writing
    /\ tx'[th] # tx[th]
    /\ tx'[th] # <<>>
    /\ tx'[th][Len(tx'[th])].ch # ""

\* C39: in listener_mqtt.py no thread writes a character to a handle on
\* which the other thread has begun a command line and not yet ended it.
C39_NoInterleaving ==
    [][\A th, o \in Threads :
          (prog = "listener_mqtt" /\ th # o /\ Wrote(th))
              => ~OpenLine(o, loc[th])]_vars

(***************************************************************************)
(* Claims about the position decoders                                      *)
(***************************************************************************)
\* a decoder has run and returned a position
Decoded == ret.fn # "-" /\ ret.val.k = "pos"

\* the buffer is 14 bytes long and its type byte is a recognized one
Recognized14 == Len(buf) = 14 /\ buf[1] \in {0, 2}

\* C18: no decoder returns a position from a buffer whose length is neither
\* 13 nor 14.
C18_InvalidLength == Decoded => Len(buf) \in {13, 14}

\* C19: no decoder returns a position from a buffer of 13 or 14 bytes whose
\* type byte is neither 0 nor 2.
C19_InvalidType == (Decoded /\ Len(buf) \in {13, 14}) => buf[1] \in {0, 2}

\* the numbers x, y, z a decoder returned, as fractions, and the quality
Returned(v) ==
    IF ret.fn = "parse_position" THEN <<v.x_m, v.y_m, v.z_m, v.quality>>
    ELSE <<Rat(v.x, 1), Rat(v.y, 1), Rat(v.z, 1), v.q>>

C21_ThirteenBytesDecoded ==
    (ret.fn # "-" /\ Len(buf) = 13 /\ buf[1] \in {0, 2})
        => /\ ret.val.k = "pos"
           /\ 0 = IF ret.fn = "parse_position" THEN ret.val.quality
                  ELSE ret.val.q

(***************************************************************************)
(* Claims about the codecs of the configuration records                    *)
(***************************************************************************)
\* C22: the anchor position payload is 13 bytes and parse_anchor_static_write
\* returns from it exactly the x, y, z and q that were packed.
C22_AnchorStaticRoundTrip ==
    ret.fn = "parse_anchor_static_write"
        => /\ Len(buf) = 13
           /\ ret.val = [k |-> "ok", x |-> sent.v.x, y |-> sent.v.y,
                         z |-> sent.v.z, q |-> sent.v.q]

\* the payload of the most negative x has been parsed
C22_Witness ==
    /\ ret.fn = "parse_anchor_static_write"
    /\ sent.v.x = -2147483647 - 1
    /\ sent.v.q = 100
    /\ ret.val.k = "ok"

\* C23: decoding the two bytes build_mode_config makes for a role gives that
\* role, UWB mode Active (2), firmware flag 0 (version 1), accelerometer, LED,
\* firmware update and BLE on, and for a tag initiator off, low power and
\* location engine on, for an anchor initiator on and the other two off.
C23_ModeConfigRoundTrip ==
    (sent.layout = "mode_config" /\ ret.fn = "decode_op_mode")
        => ret.val =
               [k |-> "mode",
                type |-> IF sent.v = "anchor" THEN "Anchor" ELSE "Tag",
                uwb |-> 2, fw |-> 1, accel |-> TRUE, led |-> TRUE,
                fw_update |-> TRUE, ble |-> TRUE,
                initiator |-> sent.v = "anchor",
                low_power |-> sent.v = "tag",
                loc_engine |-> sent.v = "tag"]

\* the anchor configuration has been decoded
C23_Witness ==
    /\ sent.layout = "mode_config"
    /\ sent.v = "anchor"
    /\ ret.fn = "decode_op_mode"
    /\ ret.val.type = "Anchor"

\* C24: decode_op_mode refuses a buffer shorter than 2 bytes and decodes
\* every buffer of 2 or more bytes: the role is bit 7 of byte 0, the UWB mode
\* bits 6..5 (3 included), the other fields the single bits of bytes 0 and 1.
C24_ModeDecodePermissive ==
    (sent.layout = "mode" /\ ret.fn = "decode_op_mode")
        => IF Len(buf) < 2 THEN ret.val.k = "raw"
           ELSE ret.val =
                    [k |-> "mode",
                     type |-> IF sent.v.anchor THEN "Anchor" ELSE "Tag",
                     uwb |-> sent.v.uwb, fw |-> sent.v.fw + 1,
                     accel |-> sent.v.accel, led |-> sent.v.led,
                     fw_update |-> sent.v.fw_update, ble |-> sent.v.ble,
                     initiator |-> sent.v.initiator,
                     low_power |-> sent.v.low_power,
                     loc_engine |-> sent.v.loc_engine]

\* three bytes with UWB mode 3 and every spare bit set have been decoded
C24_Witness ==
    /\ sent.layout = "mode"
    /\ Len(buf) = 3
    /\ sent.v.uwb = 3
    /\ sent.v.rest = 31
    /\ ret.fn = "decode_op_mode"
    /\ ret.val.k = "mode"

\* C25: a PAN ID decoder gives no PAN ID for a buffer shorter than 2 bytes
\* and, for 2 or more bytes, the value that was packed into the first two,
\* whatever follows them.
C25_PanDecodeIgnoresExtra ==
    ret.fn \in {"_read_pan", "read_write_pansid"}
        => IF Len(buf) < 2 THEN ret.val.k # "pan"
           ELSE ret.val = [k |-> "pan", v |-> sent.v]

====
